---- MODULE Spec2Model ----
(***************************************************************************)
(* A model of mcp_proxy: AsyncOverrideServer (servers/override_server.py), *)
(* MCPClient (clients/sse_client.py) and ToolOverride                      *)
(* (models/tool_override.py).                                              *)
(*                                                                         *)
(* Python dicts are modelled as sequences of [k, v] entries so that the    *)
(* insertion order the language guarantees is kept.  Coroutines are        *)
(* modelled as processes whose steps are the code between two suspension   *)
(* points: asyncio runs everything between two awaits that really suspend  *)
(* without interleaving.                                                   *)
(***************************************************************************)
EXTENDS Integers, Sequences, FiniteSets, TLC

VARIABLES
    upstream_tools,   \* self.upstream_tools: None or the ListToolsResult
    servable_tools,   \* self.servable_tools: dict name -> Tool
    overrides,        \* self.overrides: dict name -> ToolOverride
    initialized,      \* self.initialized
    client_sessions,  \* self.client_sessions: dict session id -> MCPClient
    clients,          \* every MCPClient instance constructed so far
    uuids,            \* number of uuid.uuid4() values drawn so far
    requests,         \* the handle_streamable_http / call_tool coroutines
    lifespan,         \* the lifespan context manager of serve()
    last              \* outcome of the last synchronous API call

vars == <<upstream_tools, servable_tools, overrides, initialized,
          client_sessions, clients, uuids, requests, lifespan, last>>

catalogVars == <<upstream_tools, servable_tools, initialized>>
sessionVars == <<client_sessions, clients, uuids, requests, lifespan>>

(***************************************************************************)
(* Bounds of the model.                                                    *)
(***************************************************************************)
MaxRequests == 3

Requests == 1..MaxRequests

\* tool names a caller may use; "ghost" is never offered by the upstream
ToolNames == {"search", "fetch", "ghost"}

\* values of the mcp-session-id header; "" is the absent header
Headers == {"", "A", "B"}

ScopeTypes == {"http", "websocket"}

Tool(n, s) == [name |-> n, schema |-> s]

\* the tool lists the upstream server may answer the bootstrap load with
UpstreamLists ==
    { <<>>,
      <<Tool("search", 1)>>,
      <<Tool("search", 1), Tool("fetch", 1)>>,
      <<Tool("search", 1), Tool("search", 2)>> }

(***************************************************************************)
(* Python dict, insertion ordered.                                         *)
(***************************************************************************)
DictKeys(d) == { d[i].k : i \in DOMAIN d }

DictHas(d, key) == key \in DictKeys(d)

DictGet(d, key) == d[CHOOSE i \in DOMAIN d : d[i].k = key].v

\* d[key] = val: an existing key keeps its position, a new one goes last
DictSet(d, key, val) ==
    IF DictHas(d, key)
    THEN [i \in DOMAIN d |-> IF d[i].k = key THEN [k |-> key, v |-> val] ELSE d[i]]
    ELSE Append(d, [k |-> key, v |-> val])

\* del d[key]
DictDel(d, key) == SelectSeq(d, LAMBDA e : e.k # key)

\* list(d.values())
DictValues(d) == [i \in DOMAIN d |-> d[i].v]

\* list(d.keys())
DictKeyList(d) == [i \in DOMAIN d |-> d[i].k]

\* bool(d) of a dict: an empty dict is falsy
Truthy(d) == Len(d) > 0

(***************************************************************************)
(* Option values: None, or an object.                                      *)
(***************************************************************************)
None == [isNone |-> TRUE, tools |-> <<>>]

ListToolsResult(ts) == [isNone |-> FALSE, tools |-> ts]

Names(ts) == { ts[i].name : i \in DOMAIN ts }

UpstreamNames == Names(upstream_tools.tools)

ServableNames == DictKeys(servable_tools)

Returned(op, n) == [op |-> op, name |-> n, exc |-> ""]

Raised(op, n, msg) == [op |-> op, name |-> n, exc |-> msg]

(***************************************************************************)
(* Content blocks and what a tool call hands back                          *)
(***************************************************************************)
\* types.TextContent(type="text", text=t)
TextContent(t) == [type |-> "text", text |-> t]

\* call_tool returns a bare list[ContentBlock]: the list carries no error flag,
\* so the CallToolResult the caller gets has isError at its default
Reply(blocks) == [content |-> blocks, isError |-> FALSE]

\* mcp.types.CallToolResult(content=blocks, isError=e)
CallToolResult(blocks, e) == [content |-> blocks, isError |-> e]

\* a call that has not returned
NoResult == [content |-> <<>>, isError |-> FALSE]

(***************************************************************************)
(* Coroutine and object records                                            *)
(***************************************************************************)
\* a request that has not arrived yet
IdleRequest ==
    [pc |-> "idle", stype |-> "", header |-> "", session_id |-> "",
     client |-> 0, name |-> "", via |-> 0, handler |-> "", path |-> "",
     result |-> NoResult]

\* the lifespan context manager before serve() has entered it
LifespanOff == [phase |-> "off", keys |-> <<>>, session_id |-> "", client |-> 0]

\* MCPClient.__init__: no session, nothing on the exit stack
NewClient == [session |-> FALSE, stack |-> "empty"]

(***************************************************************************)
(* AsyncOverrideServer.__init__                                            *)
(***************************************************************************)
Init ==
    /\ upstream_tools = None
    /\ servable_tools = <<>>
    /\ overrides = <<>>
    /\ initialized = FALSE
    /\ client_sessions = <<>>
    /\ clients = <<>>
    /\ uuids = 0
    /\ requests = [r \in Requests |-> IdleRequest]
    /\ lifespan = LifespanOff
    /\ last = Returned("__init__", "")

(***************************************************************************)
(* load_tools: the loop over tools.tools, in order                         *)
(***************************************************************************)
RECURSIVE LoadInto(_, _)
LoadInto(d, ts) ==
    IF ts = <<>> THEN d
    ELSE LoadInto(DictSet(d, Head(ts).name, Head(ts)), Tail(ts))

\* load_server_tool answered with the list ts
load_tools_ok(ts) ==
    /\ upstream_tools' = ListToolsResult(ts)
    /\ servable_tools' = LoadInto(servable_tools, ts)
    /\ initialized' = TRUE
    /\ last' = Returned("load_tools", "")
    /\ UNCHANGED <<overrides, sessionVars>>

\* load_server_tool raised: the except clause re-raises
load_tools_fail ==
    /\ last' = Raised("load_tools", "", "Failed to get server tools")
    /\ UNCHANGED <<catalogVars, overrides, sessionVars>>

\* create() calls load_tools; a server is loaded at most once
load_tools ==
    /\ ~initialized
    /\ \/ \E ts \in UpstreamLists : load_tools_ok(ts)
       \/ load_tools_fail

(***************************************************************************)
(* add_override / remove_override                                          *)
(***************************************************************************)
\* what an override_fn does when it is awaited
HandlerKinds == {"ok", "err", "raise"}

add_override(n, h) ==
    /\ overrides' = DictSet(overrides, n, h)
    /\ last' = Returned("add_override", n)
    /\ UNCHANGED <<catalogVars, sessionVars>>

remove_override(n) ==
    /\ overrides' = IF DictHas(overrides, n) THEN DictDel(overrides, n) ELSE overrides
    /\ last' = Returned("remove_override", n)
    /\ UNCHANGED <<catalogVars, sessionVars>>

(***************************************************************************)
(* disable_tool                                                            *)
(***************************************************************************)
disable_tool(n) ==
    /\ IF ~Truthy(servable_tools)
       THEN /\ last' = Raised("disable_tool", n, "Cannot disable tools. Tools not loaded")
            /\ UNCHANGED servable_tools
       ELSE /\ servable_tools' = IF DictHas(servable_tools, n)
                                 THEN DictDel(servable_tools, n)
                                 ELSE servable_tools
            /\ last' = Returned("disable_tool", n)
    /\ UNCHANGED <<upstream_tools, initialized, overrides, sessionVars>>

(***************************************************************************)
(* enable_tool                                                             *)
(***************************************************************************)
\* (a variant that makes up a descriptor for a name the upstream does not have)
FirstNamedOrNew(ts, n) ==
    LET hits == { i \in DOMAIN ts : ts[i].name = n }
    IN  IF hits = {} THEN <<Tool(n, 0)>>
        ELSE <<ts[CHOOSE i \in hits : \A j \in hits : i <= j]>>

\* the for loop: the first tool of the upstream list named n, if any
FirstNamed(ts, n) ==
    LET hits == { i \in DOMAIN ts : ts[i].name = n }
    IN  IF hits = {} THEN <<>>
        ELSE <<ts[CHOOSE i \in hits : \A j \in hits : i <= j]>>

enable_tool(n) ==
    /\ IF ~Truthy(servable_tools) \/ upstream_tools.isNone
       THEN /\ last' = Raised("enable_tool", n, "Cannot enable tools. Tools not loaded")
            /\ UNCHANGED servable_tools
       ELSE LET hit == FirstNamed(upstream_tools.tools, n)
            IN  IF hit # <<>>
                THEN /\ servable_tools' = DictSet(servable_tools, hit[1].name, hit[1])
                     /\ last' = Returned("enable_tool", n)
                ELSE /\ last' = Raised("enable_tool", n, "not found in upstream tools")
                     /\ UNCHANGED servable_tools
    /\ UNCHANGED <<upstream_tools, initialized, overrides, sessionVars>>

(***************************************************************************)
(* The catalog and the override table under the administrative calls       *)
(***************************************************************************)
AddOverride == \E n \in ToolNames, h \in HandlerKinds : add_override(n, h)

RemoveOverride == \E n \in ToolNames : remove_override(n)

DisableTool == \E n \in ToolNames : disable_tool(n)

EnableTool == \E n \in ToolNames : enable_tool(n)

AdminNext == AddOverride \/ RemoveOverride \/ DisableTool \/ EnableTool

CatalogNext == load_tools \/ AdminNext

CatalogSpec == Init /\ [][CatalogNext]_vars

(***************************************************************************)
(* serve: the initialized guard, then the lifespan is entered              *)
(***************************************************************************)
\* (a variant without the guard of line 129)
serve_unguarded ==
    /\ lifespan.phase = "off"
    /\ lifespan' = [lifespan EXCEPT !.phase = "running"]
    /\ last' = Returned("serve", "")
    /\ UNCHANGED <<catalogVars, overrides, client_sessions, clients, uuids, requests>>

serve ==
    /\ lifespan.phase = "off"
    /\ IF ~initialized
       THEN /\ last' = Raised("serve", "", "Cannot serve. Server not initialized")
            /\ UNCHANGED lifespan
       ELSE /\ lifespan' = [lifespan EXCEPT !.phase = "running"]
            /\ last' = Returned("serve", "")
    /\ UNCHANGED <<catalogVars, overrides, client_sessions, clients, uuids, requests>>

(***************************************************************************)
(* Startup: create() or the constructor, load_tools, serve, and the        *)
(* administrative calls                                                    *)
(***************************************************************************)
StartupNext == load_tools \/ serve \/ AdminNext

StartupSpec == Init /\ [][StartupNext]_vars

(***************************************************************************)
(* handle_streamable_http                                                  *)
(***************************************************************************)
\* str(uuid.uuid4()): a value no earlier call returned and no header carries
Uuid4(n) == "uuid-" \o ToString(n)

\* lines 57-62: the session id of a request
SessionIdOf(stype, header, n) ==
    IF stype = "http"
    THEN IF header = "" THEN Uuid4(n) ELSE header
    ELSE "None"

\* MCPClient(): a new instance, identified by its position in clients
Construct(cs) == Append(cs, NewClient)

\* (a variant that opens a connection for every request)
NewSessionAlways(sid) == TRUE

\* line 64: session_id not in self.client_sessions
NewSession(sid) == ~DictHas(client_sessions, sid)

\* lines 57-66 up to the await, or lines 57-74 up to the await when the id is known
\* (requests are numbered in the order they arrive)
Arrive(r, stype, header) ==
    /\ requests[r].pc = "idle"
    /\ \A q \in Requests : q < r => requests[q].pc # "idle"
    /\ lifespan.phase \in {"running", "draining"}
    /\ LET drawn == (stype = "http" /\ header = "")
           sid == SessionIdOf(stype, header, uuids + 1)
       IN  /\ uuids' = IF drawn THEN uuids + 1 ELSE uuids
           /\ IF NewSession(sid)
              THEN /\ clients' = Construct(clients)
                   /\ requests' = [requests EXCEPT ![r] =
                         [@ EXCEPT !.pc = "connect", !.stype = stype, !.header = header,
                                   !.session_id = sid, !.client = Len(clients) + 1]]
              ELSE /\ requests' = [requests EXCEPT ![r] =
                         [@ EXCEPT !.pc = "handling", !.stype = stype, !.header = header,
                                   !.session_id = sid]]
                   /\ UNCHANGED clients
    /\ UNCHANGED <<catalogVars, overrides, client_sessions, lifespan, last>>

\* MCPClient.connect_to_server, and what it leaves in the client when it raises
ConnectOutcomes == {"ok", "unreachable", "init_failed"}

connect_to_server(c, outcome) ==
    CASE outcome = "ok"          -> [c EXCEPT !.session = TRUE, !.stack = "open"]
      [] outcome = "unreachable" -> c
      [] outcome = "init_failed" -> [c EXCEPT !.session = TRUE, !.stack = "open"]

\* line 67, after the await of line 66 returned
Register(d, sid, c) == DictSet(d, sid, c)

\* lines 66-74: the connect returned; register, set the context, hand over
ConnectDone(r) ==
    /\ requests[r].pc = "connect"
    /\ lifespan.phase \in {"running", "draining"}
    /\ LET c == requests[r].client
       IN  /\ clients' = [clients EXCEPT ![c] = connect_to_server(@, "ok")]
           /\ client_sessions' = Register(client_sessions, requests[r].session_id, c)
    /\ requests' = [requests EXCEPT ![r].pc = "handling"]
    /\ UNCHANGED <<catalogVars, overrides, uuids, lifespan, last>>

\* line 66 raised: nothing catches it in handle_streamable_http
ConnectFailed(r) ==
    /\ requests[r].pc = "connect"
    /\ lifespan.phase \in {"running", "draining"}
    /\ \E outcome \in ConnectOutcomes \ {"ok"} :
         clients' = [clients EXCEPT ![requests[r].client] = connect_to_server(@, outcome)]
    /\ requests' = [requests EXCEPT ![r].pc = "raised", ![r].path = "connect_failed"]
    /\ UNCHANGED <<catalogVars, overrides, client_sessions, uuids, lifespan, last>>

(***************************************************************************)
(* MCPClient.close and _cleanup_session                                    *)
(***************************************************************************)
\* exit_stack.aclose(): unwinds what was entered; a second call finds nothing
close(c) == [c EXCEPT !.stack = IF @ = "empty" THEN "empty" ELSE "closed"]

\* lines 122-124, up to the await of close: the key is looked up first
CleanupEnter(l, sid) ==
    IF DictHas(client_sessions, sid)
    THEN [l EXCEPT !.session_id = sid, !.client = DictGet(client_sessions, sid)]
    ELSE [l EXCEPT !.session_id = "", !.client = 0]

\* (a variant that drops every entry)
EvictAll(d, sid) == <<>>

\* line 125, after the await of close returned
Evict(d, sid) == DictDel(d, sid)

(***************************************************************************)
(* _cleanup_session run as a coroutine of its own                          *)
(***************************************************************************)
\* lines 122-124, up to the await of close; an unknown id returns at once
CleanupStart(r, sid) ==
    /\ requests[r].pc = "idle"
    /\ \A q \in Requests : q < r => requests[q].pc # "idle"
    /\ lifespan.phase = "running"
    /\ requests' = [requests EXCEPT ![r] =
          IF DictHas(client_sessions, sid)
          THEN [@ EXCEPT !.pc = "closing", !.stype = "cleanup", !.session_id = sid,
                         !.via = DictGet(client_sessions, sid)]
          ELSE [@ EXCEPT !.pc = "done", !.stype = "cleanup", !.session_id = sid,
                         !.path = "cleanup_noop"]]
    /\ UNCHANGED <<catalogVars, overrides, client_sessions, clients, uuids, lifespan, last>>

\* lines 124-126, after the await of close returned: del raises KeyError when
\* the key is no longer in the dict
CleanupFinish(r) ==
    /\ requests[r].pc = "closing"
    /\ lifespan.phase = "running"
    /\ clients' = [clients EXCEPT ![requests[r].via] = close(@)]
    /\ IF DictHas(client_sessions, requests[r].session_id)
       THEN /\ client_sessions' = Evict(client_sessions, requests[r].session_id)
            /\ requests' = [requests EXCEPT ![r].pc = "done", ![r].path = "cleanup"]
       ELSE /\ UNCHANGED client_sessions
            /\ requests' = [requests EXCEPT ![r].pc = "raised", ![r].path = "KeyError"]
    /\ UNCHANGED <<catalogVars, overrides, uuids, lifespan, last>>

(***************************************************************************)
(* lifespan: the finally block                                             *)
(***************************************************************************)
\* line 182: the keys are copied, then the first _cleanup_session starts
ShutdownBegin ==
    /\ lifespan.phase = "running"
    /\ LET keys == DictKeyList(client_sessions)
       IN  lifespan' =
             IF keys = <<>>
             THEN [lifespan EXCEPT !.phase = "stopped"]
             ELSE [CleanupEnter(lifespan, Head(keys)) EXCEPT
                      !.phase = "draining", !.keys = Tail(keys)]
    /\ UNCHANGED <<catalogVars, overrides, client_sessions, clients, uuids, requests, last>>

\* lines 124-126 of one _cleanup_session, then the loop goes on to the next key
\* (a key that is no longer registered is skipped without suspending)
RECURSIVE NextCleanup(_, _)
NextCleanup(l, d) ==
    IF l.keys = <<>>
    THEN [l EXCEPT !.phase = "stopped", !.session_id = "", !.client = 0]
    ELSE IF DictHas(d, Head(l.keys))
         THEN [l EXCEPT !.session_id = Head(l.keys),
                        !.client = DictGet(d, Head(l.keys)),
                        !.keys = Tail(l.keys)]
         ELSE NextCleanup([l EXCEPT !.keys = Tail(l.keys)], d)

CleanupClosed ==
    /\ lifespan.phase = "draining"
    /\ lifespan.client # 0
    /\ clients' = [clients EXCEPT ![lifespan.client] = close(@)]
    /\ client_sessions' = Evict(client_sessions, lifespan.session_id)
    /\ lifespan' = NextCleanup(lifespan, client_sessions')
    /\ UNCHANGED <<catalogVars, overrides, uuids, requests, last>>

(***************************************************************************)
(* The session registry under concurrent requests and shutdown             *)
(***************************************************************************)
\* the state after create() and the start of serve(), before any request
ServingInit ==
    /\ upstream_tools = ListToolsResult(<<Tool("search", 1), Tool("fetch", 1)>>)
    /\ servable_tools = LoadInto(<<>>, upstream_tools.tools)
    /\ overrides = <<>>
    /\ initialized = TRUE
    /\ client_sessions = <<>>
    /\ clients = <<>>
    /\ uuids = 0
    /\ requests = [r \in Requests |-> IdleRequest]
    /\ lifespan = [LifespanOff EXCEPT !.phase = "running"]
    /\ last = Returned("serve", "")

\* a scope that is not http has its headers ignored
RequestArrives ==
    \E r \in Requests, stype \in ScopeTypes, header \in Headers :
        /\ stype # "http" => header = ""
        /\ Arrive(r, stype, header)

Connected == \E r \in Requests : ConnectDone(r)

ConnectRaises == \E r \in Requests : ConnectFailed(r)

SessionNext ==
    \/ RequestArrives
    \/ Connected
    \/ ConnectRaises
    \/ ShutdownBegin
    \/ CleanupClosed

SessionSpec == ServingInit /\ [][SessionNext]_vars

(***************************************************************************)
(* The session registry under requests and concurrent removals             *)
(***************************************************************************)
\* the session ids the requests and the removals of this specification use
RemovalIds == {"A", "B"}

RemovalArrives == \E r \in Requests, header \in RemovalIds : Arrive(r, "http", header)

RemovalStarts == \E r \in Requests, sid \in RemovalIds : CleanupStart(r, sid)

RemovalFinishes == \E r \in Requests : CleanupFinish(r)

CleanupNext ==
    \/ RemovalArrives
    \/ Connected
    \/ ConnectRaises
    \/ RemovalStarts
    \/ RemovalFinishes

CleanupSpec == ServingInit /\ [][CleanupNext]_vars

(***************************************************************************)
(* ToolOverride.call_with_original_access                                  *)
(***************************************************************************)
\* the ToolResult an override_fn of kind h returns (kind "raise" returns none)
ToolResultOf(h) ==
    IF h = "ok" THEN [text |-> "42", error |-> FALSE]
                ELSE [text |-> "boom", error |-> TRUE]

\* (a variant that drops the prefix)
WrapNoPrefix(result) == <<TextContent(result.text)>>

\* lines 36-39: one text block, prefixed when result.error
Wrap(result) ==
    <<TextContent((IF result.error THEN "Error: " ELSE "") \o result.text)>>

\* the message of the exception an override_fn of kind "raise" raises
HandlerException == "handler failed"

(***************************************************************************)
(* MCPClient.call_tool                                                     *)
(***************************************************************************)
\* lines 37-47: without a session the error result is returned at once
NotInitialized ==
    CallToolResult(<<TextContent("Internal Error: Session not initialized")>>, TRUE)

\* what session.call_tool may answer with: a CallToolResult ...
UpstreamResults ==
    { CallToolResult(<<TextContent("hit")>>, FALSE),
      CallToolResult(<<TextContent("a"), TextContent("b")>>, FALSE),
      CallToolResult(<<>>, FALSE),
      CallToolResult(<<TextContent("upstream refused")>>, TRUE) }

\* ... or an exception, with this message
UpstreamErrors == {"timeout"}

\* what session.call_tool raises once the exit stack has been unwound
ClosedErrors == {"ClosedResourceError"}

(***************************************************************************)
(* MCPClient used on its own: connect_to_server, call_tool, close          *)
(***************************************************************************)
MaxClients == 2

ClientIds == 1..MaxClients

\* the outcome of one MCPClient method call; attempted: whether
\* session.call_tool was invoked
ClientOutcome(op, c, n, attempted, result, exc) ==
    [op |-> op, name |-> n, exc |-> exc, client |-> c,
     attempted |-> attempted, result |-> result]

ClientInit ==
    /\ upstream_tools = None
    /\ servable_tools = <<>>
    /\ overrides = <<>>
    /\ initialized = FALSE
    /\ client_sessions = <<>>
    /\ clients = [c \in ClientIds |-> NewClient]
    /\ uuids = 0
    /\ requests = [r \in Requests |-> IdleRequest]
    /\ lifespan = LifespanOff
    /\ last = Returned("__init__", "")

\* MCPClient.connect_to_server, lines 17-28
ClientConnect(c, outcome) ==
    /\ clients' = [clients EXCEPT ![c] = connect_to_server(@, outcome)]
    /\ last' = ClientOutcome("connect_to_server", c, "", FALSE, NoResult,
                             IF outcome = "ok" THEN "" ELSE outcome)
    /\ UNCHANGED <<catalogVars, overrides, client_sessions, uuids, requests, lifespan>>

\* what session.call_tool can do in the state the client is in
SessionAnswers(c) ==
    IF c.stack = "open"
    THEN [kind : {"result"}, result : UpstreamResults, exc : {""}]
         \cup [kind : {"raise"}, result : {NoResult}, exc : UpstreamErrors]
    ELSE [kind : {"raise"}, result : {NoResult}, exc : ClosedErrors]

\* MCPClient.call_tool, lines 36-49: line 37 tests self.session only
ClientCall(c, n, answer) ==
    /\ last' = IF ~clients[c].session
               THEN ClientOutcome("call_tool", c, n, FALSE, NotInitialized, "")
               ELSE ClientOutcome("call_tool", c, n, TRUE, answer.result, answer.exc)
    /\ UNCHANGED <<catalogVars, overrides, sessionVars>>

\* MCPClient.close, lines 51-52
ClientClose(c) ==
    /\ clients' = [clients EXCEPT ![c] = close(@)]
    /\ last' = ClientOutcome("close", c, "", FALSE, NoResult, "")
    /\ UNCHANGED <<catalogVars, overrides, client_sessions, uuids, requests, lifespan>>

\* the tool names the calls of this specification use
ClientCallNames == {"search", "fetch"}

ClientConnects == \E c \in ClientIds, outcome \in ConnectOutcomes : ClientConnect(c, outcome)

ClientCalls ==
    \E c \in ClientIds, n \in ClientCallNames :
        \E answer \in SessionAnswers(clients[c]) : ClientCall(c, n, answer)

ClientCloses == \E c \in ClientIds : ClientClose(c)

ClientNext ==
    \/ ClientConnects
    \/ ClientCalls
    \/ ClientCloses

ClientSpec == ClientInit /\ [][ClientNext]_vars

(***************************************************************************)
(* serve.call_tool                                                         *)
(***************************************************************************)
\* _get_client_for_session: dict.get, 0 for None
GetClientForSession(sid) ==
    IF DictHas(client_sessions, sid) THEN DictGet(client_sessions, sid) ELSE 0

Finish(req, path, blocks) ==
    [req EXCEPT !.pc = "done", !.path = path, !.result = Reply(blocks)]

\* (a variant that consults the servable catalog before the override table)
OverriddenAndServable(n) == DictHas(overrides, n) /\ DictHas(servable_tools, n)

\* line 151: is the call taken by the override table
Overridden(n) == DictHas(overrides, n)

\* (a variant that looks the name up in the upstream snapshot)
NotInUpstream(n) == n \notin UpstreamNames

\* line 162: is the call refused as not available
NotServable(n) == ~DictHas(servable_tools, n)

\* lines 138-168, up to the first await that suspends.  hasCtx: whether
\* current_session_id is set in the context the handler runs in
Dispatch(req, n, hasCtx) ==
    LET named == [req EXCEPT !.name = n]
        client == GetClientForSession(req.session_id)
    IN  IF ~hasCtx
        THEN Finish(named, "no_session", <<TextContent("Error: No session available")>>)
        ELSE IF client = 0
        THEN Finish(named, "no_client", <<TextContent("Error: Client session not found")>>)
        ELSE IF Overridden(n)
        THEN [named EXCEPT !.pc = "override", !.via = client,
                           !.handler = DictGet(overrides, n)]
        ELSE IF NotServable(n)
        THEN Finish(named, "unavailable",
                    <<TextContent("Tool '" \o n \o "' not available")>>)
        ELSE IF ~clients[client].session
        THEN [Finish(named, "forward_ok", NotInitialized.content) EXCEPT !.via = client]
        ELSE [named EXCEPT !.pc = "forward", !.via = client]

CallTool(r, n, hasCtx) ==
    /\ requests[r].pc = "handling"
    /\ lifespan.phase \in {"running", "draining"}
    /\ requests' = [requests EXCEPT ![r] = Dispatch(@, n, hasCtx)]
    /\ UNCHANGED <<catalogVars, overrides, client_sessions, clients, uuids, lifespan, last>>

\* lines 155-160: the handler returned or raised
OverrideOutcome(req) ==
    IF req.handler = "raise"
    THEN Finish(req, "override_failed",
                <<TextContent("Override error: " \o HandlerException)>>)
    ELSE Finish(req, "override_ok", Wrap(ToolResultOf(req.handler)))

OverrideReturns(r) ==
    /\ requests[r].pc = "override"
    /\ lifespan.phase \in {"running", "draining"}
    /\ requests' = [requests EXCEPT ![r] = OverrideOutcome(@)]
    /\ UNCHANGED <<catalogVars, overrides, client_sessions, clients, uuids, lifespan, last>>

\* lines 168-170: session.call_tool answered
ForwardReturns(r, res) ==
    /\ requests[r].pc = "forward"
    /\ lifespan.phase \in {"running", "draining"}
    /\ clients[requests[r].via].stack = "open"
    /\ requests' = [requests EXCEPT ![r] = Finish(@, "forward_ok", res.content)]
    /\ UNCHANGED <<catalogVars, overrides, client_sessions, clients, uuids, lifespan, last>>

\* lines 171-173: session.call_tool raised (always so once the client is closed)
ForwardRaises(r, msg) ==
    /\ requests[r].pc = "forward"
    /\ lifespan.phase \in {"running", "draining"}
    /\ requests' = [requests EXCEPT ![r] =
          Finish(@, "forward_failed", <<TextContent("Tool call error: " \o msg)>>)]
    /\ UNCHANGED <<catalogVars, overrides, client_sessions, clients, uuids, lifespan, last>>

(***************************************************************************)
(* serve.list_tools                                                        *)
(***************************************************************************)
\* (a variant that leaves out the tools an override replaces)
list_tools_not_overridden ==
    SelectSeq(DictValues(servable_tools), LAMBDA t : ~DictHas(overrides, t.name))

\* line 134: list(self.servable_tools.values())
list_tools == DictValues(servable_tools)

\* the handler is run for a request the session manager has taken over
ListTools(r) ==
    /\ requests[r].pc = "handling"
    /\ lifespan.phase \in {"running", "draining"}
    /\ requests' = [requests EXCEPT ![r] =
          [@ EXCEPT !.pc = "done", !.path = "list_tools",
                    !.result = [content |-> list_tools, isError |-> FALSE]]]
    /\ UNCHANGED <<catalogVars, overrides, client_sessions, clients, uuids, lifespan, last>>

(***************************************************************************)
(* The router under calls, administrative calls and shutdown               *)
(***************************************************************************)
MaxCallers == 1

Callers == 1..MaxCallers

\* the names the calls and the administrative calls of this specification use
CallNames == {"search", "ghost"}

CallerArrives == \E r \in Callers, header \in {"", "A"} : Arrive(r, "http", header)

CallerConnected == \E r \in Callers : ConnectDone(r)

CallerConnectRaises == \E r \in Callers : ConnectFailed(r)

Calls == \E r \in Callers, n \in CallNames, hasCtx \in BOOLEAN : CallTool(r, n, hasCtx)

HandlerDone == \E r \in Callers : OverrideReturns(r)

UpstreamAnswers == \E r \in Callers, res \in UpstreamResults : ForwardReturns(r, res)

UpstreamRaises == \E r \in Callers, msg \in UpstreamErrors : ForwardRaises(r, msg)

Lists == \E r \in Callers : ListTools(r)

\* the name the administrative calls of this specification are about
AdminNames == {"search"}

RouterAdmin ==
    \E n \in AdminNames :
        \/ \E h \in HandlerKinds : add_override(n, h)
        \/ remove_override(n)
        \/ disable_tool(n)
        \/ enable_tool(n)

RouterNext ==
    \/ CallerArrives
    \/ CallerConnected
    \/ CallerConnectRaises
    \/ Calls
    \/ HandlerDone
    \/ UpstreamAnswers
    \/ UpstreamRaises
    \/ Lists
    \/ RouterAdmin
    \/ ShutdownBegin
    \/ CleanupClosed

RouterSpec == ServingInit /\ [][RouterNext]_vars

(***************************************************************************)
(* Properties of the tool catalog (CatalogSpec)                            *)
(***************************************************************************)
Range(seq) == { seq[i] : i \in DOMAIN seq }

SubsetOfUpstream == ServableNames \subseteq UpstreamNames

\* enable_tool(n) for a name the upstream snapshot lacks raises and writes nothing
EnableOfUnknownFails ==
    \A n \in ToolNames :
        (enable_tool(n) /\ n \notin UpstreamNames)
            => (last'.exc # "" /\ servable_tools' = servable_tools)

\* C2: in every state the names of the servable catalog are names of the
\* upstream snapshot, and enable_tool of a name that is not in the upstream
\* snapshot raises and leaves the servable catalog as it was.
C2_CatalogSubset ==
    SubsetOfUpstream /\ [][SubsetOfUpstream' /\ EnableOfUnknownFails]_vars

\* C2 witness: after a load, with one tool disabled and others still servable,
\* enable_tool("ghost") has gone through the upstream list and raised.
C2_Witness ==
    /\ initialized
    /\ last = Raised("enable_tool", "ghost", "not found in upstream tools")
    /\ ServableNames # {}
    /\ ServableNames # UpstreamNames

\* C8: after a successful load, enable_tool(name) returns normally and leaves
\* name servable with a descriptor of the upstream snapshot whenever name is in
\* the upstream snapshot, and raises whenever it is not.
C8_EnableSucceedsForUpstreamNames ==
    (initialized /\ last.op = "enable_tool")
        => IF last.name \in UpstreamNames
           THEN /\ last.exc = ""
                /\ DictHas(servable_tools, last.name)
                /\ DictGet(servable_tools, last.name) \in Range(upstream_tools.tools)
           ELSE last.exc # ""

\* disable_tool(n) writes nothing but the entry of n in the servable catalog
DisableFrame ==
    \A n \in ToolNames :
        disable_tool(n)
            => /\ upstream_tools' = upstream_tools
               /\ overrides' = overrides
               /\ servable_tools' = DictDel(servable_tools, n)

\* C9: after a successful load disable_tool(name) never raises, name is not
\* servable afterwards, and the upstream snapshot, the override table and the
\* other servable entries are unchanged.
C9_DisableNeverFails ==
    [][ /\ DisableFrame
        /\ (initialized' /\ last'.op = "disable_tool")
              => (last'.exc = "" /\ ~DictHas(servable_tools', last'.name)) ]_vars

(***************************************************************************)
(* Properties of the session registry (SessionSpec)                        *)
(***************************************************************************)
Arrived == { r \in Requests : requests[r].pc # "idle" }

\* the requests that called connect_to_server for session id sid and whose
\* call has not raised
OpensFor(sid) ==
    { r \in Arrived : /\ requests[r].session_id = sid
                      /\ requests[r].client # 0
                      /\ requests[r].pc # "raised" }

\* the clients whose connect_to_server returned normally
Opened == { requests[r].client : r \in { q \in Arrived : /\ requests[q].client # 0
                                                         /\ requests[q].pc \notin {"connect", "raised"} } }

\* C1: while no session has been removed, at most one connect_to_server is
\* performed for a session id, however many requests bear that id in their
\* header.
C1_OneOpenPerNewSession ==
    lifespan.phase = "running"
        => \A r \in Arrived :
              requests[r].header # ""
                  => Cardinality(OpensFor(requests[r].session_id)) <= 1

DistinctInstances ==
    \A i, j \in DOMAIN client_sessions :
        i # j => client_sessions[i].v # client_sessions[j].v

\* removing one session leaves every other entry, and its client, as it was
RemovalLeavesOthers ==
    CleanupClosed =>
        \A i \in DOMAIN client_sessions :
            client_sessions[i].k # lifespan.session_id
                => /\ DictHas(client_sessions', client_sessions[i].k)
                   /\ DictGet(client_sessions', client_sessions[i].k) = client_sessions[i].v
                   /\ clients'[client_sessions[i].v] = clients[client_sessions[i].v]

\* C5: two distinct session ids are never registered with the same MCPClient
\* instance, and the removal of one session leaves the entry of every other
\* session and the state of its client unchanged.
C5_SessionIsolation ==
    DistinctInstances /\ [][DistinctInstances' /\ RemovalLeavesOthers]_vars

\* C5 witness: the requests of A and of B were both waiting for their connects,
\* both registered, and A has been removed while B is registered and open.
C5_Witness ==
    /\ \E r, q \in Arrived :
          /\ requests[r].session_id = "A" /\ requests[q].session_id = "B"
          /\ requests[r].pc = "handling" /\ requests[q].pc = "handling"
          /\ requests[r].client # 0 /\ requests[q].client # 0
          /\ clients[requests[r].client].stack = "closed"
          /\ clients[requests[q].client].stack = "open"
          /\ DictHas(client_sessions, "B")
          /\ DictGet(client_sessions, "B") = requests[q].client
    /\ ~DictHas(client_sessions, "A")

\* C6: two requests without a session header never have the same session id,
\* and each of them opens a client of its own.
C6_HeaderlessRequestsAreFresh ==
    \A r, q \in Arrived :
        (r # q /\ requests[r].header = "" /\ requests[q].header = "")
            => /\ requests[r].session_id # requests[q].session_id
               /\ requests[r].client # 0
               /\ requests[r].client # requests[q].client

\* C7: when the finally block of lifespan has completed, the registry is empty
\* and no client whose connect returned is still open.
C7_ShutdownDrainsAll ==
    lifespan.phase = "stopped"
        => /\ client_sessions = <<>>
           /\ \A c \in Opened : clients[c].stack # "open"

\* C10: a request whose connect_to_server raised ends with an error content
\* block; the exception does not leave handle_streamable_http.
C10_ConnectFailureIsReported ==
    \A r \in Arrived :
        requests[r].path = "connect_failed"
            => /\ requests[r].pc = "done"
               /\ requests[r].result.content # <<>>

(***************************************************************************)
(* Properties of the request router (RouterSpec)                           *)
(***************************************************************************)
\* the step in which request r enters call_tool
Dispatched(r) == requests[r].pc = "handling" /\ requests'[r].pc # "handling"

\* a call whose name has an override when it is dispatched is given to the
\* handler, provided its session resolved to a client; it is never forwarded
OverrideTakesTheCall ==
    \A r \in Requests :
        (Dispatched(r) /\ DictHas(overrides, requests'[r].name))
            => /\ requests'[r].pc # "forward"
               /\ requests'[r].path \notin {"forward_ok", "forward_failed", "unavailable"}
               /\ requests'[r].path \notin {"no_session", "no_client"}
                     => /\ requests'[r].pc = "override"
                        /\ requests'[r].handler = DictGet(overrides, requests'[r].name)

\* a call that was given to the handler ends with the handler's outcome
OverrideStaysOverride ==
    \A r \in Requests :
        requests[r].pc = "override"
            => \/ requests'[r] = requests[r]
               \/ /\ requests'[r].pc = "done"
                  /\ requests'[r].path \in {"override_ok", "override_failed"}

\* C3: a call to a name that has an override when the call is dispatched runs
\* the override handler and is never forwarded by the router to the client's
\* call_tool, whether or not the name is servable.
C3_OverridePrecedence == [][OverrideTakesTheCall /\ OverrideStaysOverride]_vars

\* C3 witness: a call to a name that is overridden and not servable was
\* answered by the handler.
C3_Witness ==
    \E r \in Arrived :
        /\ requests[r].pc = "done"
        /\ requests[r].path = "override_ok"
        /\ DictHas(overrides, requests[r].name)
        /\ ~DictHas(servable_tools, requests[r].name)
        /\ requests[r].name \in UpstreamNames

FailurePaths == {"override_failed", "forward_failed", "unavailable", "no_session", "no_client"}

CallPaths == FailurePaths \cup {"override_ok", "forward_ok"}

\* C4: every tool call that has returned handed back a non-empty sequence of
\* content blocks whose error flag is set exactly on the failure paths.
C4_ResultNormalization ==
    \A r \in Arrived :
        (requests[r].pc = "done" /\ requests[r].path \in CallPaths)
            => /\ requests[r].result.content # <<>>
               /\ requests[r].result.isError = (requests[r].path \in FailurePaths)

\* the step in which request r enters call_tool with its session resolved
CallDispatched(r) ==
    /\ Dispatched(r)
    /\ requests'[r].path \notin {"no_session", "no_client", "list_tools"}

\* a call to a name without override that is not servable is refused with the
\* message naming it, in the step that dispatches it
UnavailableIsRefused ==
    \A r \in Requests :
        (/\ CallDispatched(r)
         /\ ~DictHas(overrides, requests'[r].name)
         /\ ~DictHas(servable_tools, requests'[r].name))
            => /\ requests'[r].pc = "done"
               /\ requests'[r].path = "unavailable"
               /\ requests'[r].via = 0
               /\ requests'[r].result.content =
                     <<[type |-> "text",
                        text |-> "Tool '" \o requests'[r].name \o "' not available"]>>

\* a call that has returned is not taken up again
DoneStaysDone ==
    \A r \in Requests : requests[r].pc = "done" => requests'[r] = requests[r]

\* C11: a call to a name that has no override and is not servable when it is
\* dispatched ends with the block "Tool '<name>' not available" and is never
\* forwarded to the client's call_tool, whatever disable_tool calls interleave.
C11_UnavailableNeverForwarded == [][UnavailableIsRefused /\ DoneStaysDone]_vars

\* C11 witness: a call to the upstream tool "search", disabled and without an
\* override, was refused.
C11_Witness ==
    \E r \in Arrived :
        /\ requests[r].pc = "done"
        /\ requests[r].path = "unavailable"
        /\ requests[r].name = "search"
        /\ requests[r].name \in UpstreamNames
        /\ ~DictHas(servable_tools, "search")
        /\ ~DictHas(overrides, "search")

\* a listing hands back the values of the servable catalog, in its order
ListIsServable ==
    \A r \in Requests :
        (requests[r].pc = "handling" /\ requests'[r].path = "list_tools")
            => /\ requests'[r].pc = "done"
               /\ requests'[r].result.content =
                     [i \in DOMAIN servable_tools |-> servable_tools[i].v]

\* what a listing would hand back changes only with the servable catalog
ListFrame == (servable_tools' = servable_tools) => (list_tools' = list_tools)

\* C12: list_tools returns exactly the servable catalog of the moment, and no
\* step that leaves the servable catalog alone (add_override, remove_override,
\* session creation and removal, connects and closes) changes what it returns.
C12_ListIsServableOnly == [][ListIsServable /\ ListFrame]_vars

\* C12 witness: a listing was answered while an override was registered for
\* "search" and "search" was disabled; it is the catalog without "search".
C12_Witness ==
    \E r \in Arrived :
        /\ requests[r].pc = "done"
        /\ requests[r].path = "list_tools"
        /\ DictHas(overrides, "search")
        /\ ~DictHas(servable_tools, "search")
        /\ requests[r].result.content = <<Tool("fetch", 1)>>

(***************************************************************************)
(* Properties of startup (StartupSpec)                                     *)
(***************************************************************************)
\* C13: the lifespan is entered only on an initialized server; a load_tools
\* that failed raised and left initialized false; serve on a server that is
\* not initialized raises and does not start; right after a successful load
\* the names of the servable catalog are the names of the upstream snapshot.
C13_StartupGating ==
    /\ lifespan.phase # "off" => initialized
    /\ initialized => ~upstream_tools.isNone
    /\ (last.op = "load_tools" /\ last.exc # "")
          => (~initialized /\ lifespan.phase = "off")
    /\ (last.op = "serve" /\ ~initialized)
          => (last.exc # "" /\ lifespan.phase = "off")
    /\ (last.op = "serve" /\ initialized)
          => (last.exc = "" /\ lifespan.phase = "running")
    /\ (last.op = "load_tools" /\ last.exc = "")
          => (initialized /\ ServableNames = UpstreamNames)

\* C13 witness: serve was refused on a server whose load did not succeed.
C13_Witness ==
    /\ ~initialized
    /\ upstream_tools.isNone
    /\ last = Raised("serve", "", "Cannot serve. Server not initialized")
    /\ lifespan.phase = "off"

(***************************************************************************)
(* Properties of the outcomes of a call (RouterSpec)                       *)
(***************************************************************************)
\* the pieces the messages of call_tool are put together from
Affixes ==
    { "", "Tool '", "' not available", "Override error: ", "Tool call error: ",
      "Error: ", ": " \o HandlerException, " (" , ")" }

\* the text carries the tool name n
Mentions(text, n) == \E pre \in Affixes, post \in Affixes : text = pre \o n \o post

\* C14: a call whose override handler raised has returned one error block
\* whose text carries the name of the tool that was called.
C14_OverrideFailureNamesTool ==
    \A r \in Arrived :
        requests[r].path = "override_failed"
            => /\ requests[r].pc = "done"
               /\ Len(requests[r].result.content) = 1
               /\ Mentions(requests[r].result.content[1].text, requests[r].name)

\* the forward path hands back what the client's call_tool answered, or the
\* block made of the message of what it raised, flagged as an error
ForwardOutcome ==
    \A r \in Requests :
        /\ \A res \in UpstreamResults :
              ForwardReturns(r, res) => requests'[r].result.content = res.content
        /\ \A msg \in UpstreamErrors :
              ForwardRaises(r, msg)
                  => requests'[r].result =
                       [content |-> <<[type |-> "text", text |-> "Tool call error: " \o msg]>>,
                        isError |-> TRUE]

\* C15: a forwarded call returns the content blocks of the upstream result
\* unchanged and in order, and when the upstream call fails with message m
\* the one block "Tool call error: m" with isError true.
C15_ForwardPath == [][ForwardOutcome]_vars

(***************************************************************************)
(* Properties of _cleanup_session (CleanupSpec)                            *)
(***************************************************************************)
OthersUnchanged(sid) ==
    \A i \in DOMAIN client_sessions :
        client_sessions[i].k # sid
            => /\ DictHas(client_sessions', client_sessions[i].k)
               /\ DictGet(client_sessions', client_sessions[i].k) = client_sessions[i].v

\* a removal that found its id closes the client, evicts the entry and returns
RemovalCompletes ==
    \A r \in Requests :
        CleanupFinish(r)
            => /\ requests'[r].pc = "done"
               /\ clients'[requests[r].via].stack # "open"
               /\ ~DictHas(client_sessions', requests[r].session_id)
               /\ OthersUnchanged(requests[r].session_id)

\* a removal of an unknown id returns at once and changes nothing
RemovalOfUnknown ==
    \A r \in Requests, sid \in RemovalIds :
        (CleanupStart(r, sid) /\ ~DictHas(client_sessions, sid))
            => /\ requests'[r].pc = "done"
               /\ client_sessions' = client_sessions
               /\ clients' = clients

\* C16: _cleanup_session closes the client of a registered id and evicts its
\* entry, returns without effect for an unknown id, never raises (also when
\* two removals of one id interleave at the await of close), and leaves the
\* entries of the other ids unchanged.
C16_RemovalNeverFails == [][RemovalCompletes /\ RemovalOfUnknown]_vars

(***************************************************************************)
(* Properties of MCPClient (ClientSpec)                                    *)
(***************************************************************************)
\* close raises nothing, leaves nothing open, and changes nothing when
\* nothing is open
CloseIsIdempotent ==
    \A c \in ClientIds :
        ClientClose(c)
            => /\ last'.exc = ""
               /\ clients'[c].stack # "open"
               /\ (clients[c].stack # "open" => clients'[c] = close(clients'[c]))

\* a call on a client that is not open is answered without an upstream call
CallNeedsOpenConnection ==
    \A c \in ClientIds, n \in ClientCallNames :
        \A answer \in SessionAnswers(clients[c]) :
            (ClientCall(c, n, answer) /\ clients[c].stack # "open")
                => /\ ~last'.attempted
                   /\ last'.exc = ""
                   /\ last'.result = NotInitialized

\* C17: MCPClient.close is idempotent, and call_tool on a client that was
\* never opened or has been closed returns the "not connected" error result
\* without attempting the upstream call, in every order of connect, call and
\* close.
C17_CallOnClosedIsRefused == [][CloseIsIdempotent /\ CallNeedsOpenConnection]_vars

(***************************************************************************)
(* Reuse of a registered connection (SessionSpec)                          *)
(***************************************************************************)
\* the request r arrives in this step, bearing an id the registry holds
ArrivesKnown(r) ==
    /\ requests[r].pc = "idle"
    /\ requests'[r].pc # "idle"
    /\ requests'[r].session_id \in DictKeys(client_sessions)

ReuseOpensNothing ==
    \A r \in Requests :
        ArrivesKnown(r)
            => /\ requests'[r].pc = "handling"
               /\ requests'[r].client = 0
               /\ clients' = clients
               /\ client_sessions' = client_sessions
               /\ DictGet(client_sessions', requests'[r].session_id) \in Opened

\* C18: a request whose session id is in the registry when it arrives opens
\* no upstream connection, constructs no client, and leaves the registry
\* entry of its id on the same, already connected, client; it is handed to the
\* handler at once.
C18_KnownIdReusesConnection == [][ReuseOpensNothing]_vars

\* a request is being served on a connection another request opened
C18_Witness ==
    \E r \in Arrived :
        /\ requests[r].pc = "handling"
        /\ requests[r].client = 0
        /\ requests[r].header = "A"
        /\ DictHas(client_sessions, requests[r].session_id)
        /\ \E q \in Arrived :
              /\ q # r
              /\ requests[q].client = DictGet(client_sessions, requests[r].session_id)

(***************************************************************************)
(* Properties of call_with_original_access (RouterSpec)                    *)
(***************************************************************************)
\* texts a handler may return
ResultTexts == {"", "42", "boom", "Error: x"}

WrapOfEveryResult ==
    \A text \in ResultTexts, error \in BOOLEAN :
        LET blocks == Wrap([text |-> text, error |-> error])
        IN  /\ Len(blocks) = 1
            /\ blocks[1].type = "text"
            /\ blocks[1].text = IF error THEN "Error: " \o text ELSE text

WrapOfTheCall ==
    \A r \in Arrived :
        (requests[r].pc = "done" /\ requests[r].path = "override_ok")
            => requests[r].result.content =
                 IF requests[r].handler = "ok"
                 THEN <<[type |-> "text", text |-> "42"]>>
                 ELSE <<[type |-> "text", text |-> "Error: boom"]>>

\* C19: call_with_original_access returns exactly one text block for every
\* handler result (text, error): its text is "Error: " followed by text when
\* error is true and text itself when error is false; a call of "search"
\* whose override returns ("42", false) yields the single block "42".
C19_OverrideResultWrapping == WrapOfEveryResult /\ WrapOfTheCall

\* a call of "search" has returned through an override that returned ("42", false)
C19_Witness ==
    \E r \in Arrived :
        /\ requests[r].pc = "done"
        /\ requests[r].path = "override_ok"
        /\ requests[r].name = "search"
        /\ requests[r].handler = "ok"
        /\ requests[r].result.content = <<[type |-> "text", text |-> "42"]>>

(***************************************************************************)
(* Ownership of the open connections (SessionSpec)                         *)
(***************************************************************************)
\* the registry entries that hold client c
OwnersOf(c) == { i \in DOMAIN client_sessions : client_sessions[i].v = c }

\* C20: every client whose connect_to_server has returned and that has not
\* been closed is the value of exactly one entry of client_sessions: no
\* registration drops a client that is still open, and no client is shared
\* by two session ids.  (Stated for the clients opened by requests that bear
\* an mcp-session-id header.)
C20_NoOrphanedConnections ==
    \A r \in Arrived :
        (/\ requests[r].header # ""
         /\ requests[r].client \in Opened
         /\ clients[requests[r].client].stack = "open")
            => Cardinality(OwnersOf(requests[r].client)) = 1

====
